---- MODULE Spec2Model ----
(***************************************************************************)
(* PPanGGOLiN: prediction of Regions of Genomic Plasticity on one contig   *)
(* (ppanggolin/RGP/genomicIsland.py) and clustering of the RGPs by gene    *)
(* repertoire relatedness (ppanggolin/RGP/rgp_cluster.py).                 *)
(***************************************************************************)
EXTENDS Integers, Sequences, FiniteSets, TLC

\* ------------------------------------------------------------------------
\* Bounds of the model
\* ------------------------------------------------------------------------
MaxLen == 4
MaxRGP == 3
MaxFam == 2
MaxReps == 7

\* ------------------------------------------------------------------------
\* Inputs of the prediction: genes, contigs, parameters
\* ------------------------------------------------------------------------
\* Python's None, for a missing predecessor and an unset local
None == -1

\* a gene is seen by the automaton through its family: the family's named
\* partition and whether the family is in the set multi
Persistent == [named_partition |-> "persistent", in_multi |-> FALSE]
PersistentMulti == [named_partition |-> "persistent", in_multi |-> TRUE]
Shell == [named_partition |-> "shell", in_multi |-> FALSE]
GeneKinds == {Persistent, PersistentMulti, Shell}

\* coordinates of the gene at position i of its contig
GeneStart == 10
GeneLength == 30
GeneStep == 35
start(i) == GeneStart + GeneStep * i
stop(i) == start(i) + GeneLength

\* the two contigs of the documented scenarios
ScenarioPersistentThenVariable == [i \in 0..6 |-> IF i < 3 THEN Persistent ELSE Shell]
ScenarioAllVariable == [i \in 0..9 |-> Shell]

Contigs ==
    UNION {[0..(n - 1) -> GeneKinds] : n \in 1..MaxLen}
        \cup {ScenarioPersistentThenVariable, ScenarioAllVariable}

Penalties == {1, 3}
Gains == {1, 2}
MinScores == {0, 1, 4}
MinLengths == {0, 50, 200}

VARIABLES
    genes,               \* contig.genes, positions 0..len-1
    is_circular,         \* contig.is_circular
    persistent_penalty,
    variable_gain,
    min_score,
    min_length,
    pc,                  \* where the prediction on the contig stands
    matrix,              \* the list of MatriceNode, indices 0..len-1
    prev,                \* init_matrices / rewrite_matrix: index of node prev
    nb_perc,
    zero_ind,            \* init_matrices: index of the node zero_ind, or None
    curr_state,
    c,
    val,                 \* mk_regions: val, index
    index,
    node,                \* extract_rgp: index of the node walked, or None
    new_region,          \* extract_rgp: genes appended so far
    rw_index,            \* rewrite_matrix: its own index
    contig_regions,      \* mk_regions: the regions kept
    extracted,           \* every region extract_rgp returned, in order
    rgps,                \* cluster_rgp: pangenome.regions, name -> tuple(rgp.families)
    cpu,
    cpc,                 \* where cluster_rgp stands
    uniq_rgps,           \* dereplicate_rgp: representative -> identical rgps
    grr_nodes,           \* grr_graph: node -> attributes
    grr_edges,           \* grr_graph: {u, v} -> attributes
    chunks,              \* chunks_of_rgp_pairs
    task,                \* the pool: chunk -> where its evaluation stands
    outqueue,            \* the pool: results in the order they arrived
    pool,                \* the pool: state, and whether close / join ran
    written,             \* graph files written
    status,              \* pangenome.status["predictedRGP"]
    force,
    file_rgp,            \* the pangenome file holds RGPs of a former run
    loaded,              \* check_pangenome_info loaded what predict_rgp needs
    regions,             \* pangenome.regions
    parameters,          \* pangenome.parameters
    ppc                  \* where predict_rgp stands

rgp_vars == <<genes, is_circular, persistent_penalty, variable_gain, min_score,
          min_length, pc, matrix, prev, nb_perc, zero_ind, curr_state, c, val,
          index, node, new_region, rw_index, contig_regions, extracted>>

cluster_vars == <<rgps, cpu, cpc, uniq_rgps, grr_nodes, grr_edges, chunks, task,
                  outqueue, pool, written>>

predict_vars == <<status, force, file_rgp, loaded, regions, parameters, ppc>>

vars == <<rgp_vars, cluster_vars, predict_vars>>

params == <<genes, is_circular, persistent_penalty, variable_gain, min_score,
            min_length>>

NbGenes == Cardinality(DOMAIN genes)

\* ------------------------------------------------------------------------
\* MatriceNode
\* ------------------------------------------------------------------------
MatriceNode_unclamped(state, score, p, gene) ==
    [state |-> state, score |-> score, prev |-> p, gene |-> gene]

MatriceNode(state, score, p, gene) ==
    [state |-> state,
     score |-> IF score > 0 THEN score ELSE 0,
     prev |-> p,
     gene |-> gene]

changes_accumulating(n, score) ==
    [n EXCEPT !.state = IF score >= 0 THEN 1 ELSE 0,
              !.score = n.score + (IF score >= 0 THEN score ELSE 0)]

changes_unclamped(n, score) ==
    [n EXCEPT !.state = IF score >= 0 THEN 1 ELSE 0, !.score = score]

changes(n, score) ==
    [n EXCEPT !.state = IF score >= 0 THEN 1 ELSE 0,
              !.score = IF score >= 0 THEN score ELSE 0]

\* ------------------------------------------------------------------------
\* the delta rule shared by init_matrices and rewrite_matrix
\* ------------------------------------------------------------------------
RECURSIVE pow(_, _)
pow(b, e) == IF e = 0 THEN 1 ELSE b * pow(b, e - 1)

penalised(g) == g.named_partition = "persistent" /\ ~g.in_multi

modif(g, nbp, penalty, gain) ==
    IF penalised(g) THEN 0 - pow(penalty, nbp) ELSE gain

nb_perc_kept(g, nbp) == IF penalised(g) THEN nbp + 1 ELSE nbp

next_nb_perc(g, nbp) == IF penalised(g) THEN nbp + 1 ELSE 0

\* ------------------------------------------------------------------------
\* init_matrices: the first pass over contig.genes
\* ------------------------------------------------------------------------
first_score(m, mat, i) == IF i = 0 THEN m ELSE m + mat[i - 1].score

\* one turn of the for loop over contig.genes: the node of gene i is built
\* on the node before it (prev is i - 1, None for the first gene)
init_matrices ==
    /\ pc = "init_matrices"
    /\ LET i == Cardinality(DOMAIN matrix)
           m == modif(genes[i], nb_perc, persistent_penalty, variable_gain)
           curr_score == first_score(m, matrix, i)
           state == IF curr_score >= 0 THEN 1 ELSE 0
           new == MatriceNode(state, curr_score, prev, i)
       IN  /\ nb_perc' = next_nb_perc(genes[i], nb_perc)
           /\ curr_state' = state
           /\ zero_ind' = IF new.state = 0 THEN i ELSE zero_ind
           /\ prev' = i
           /\ matrix' = [j \in 0..i |-> IF j < i THEN matrix[j] ELSE new]
           /\ pc' = IF i + 1 < NbGenes THEN "init_matrices" ELSE "init_circular"
    /\ UNCHANGED <<cluster_vars, predict_vars, params, c, val, index, node, new_region, rw_index,
                   contig_regions, extracted>>

\* lines 124-128: the test that opens the circular pass
init_circular ==
    /\ pc = "init_circular"
    /\ IF is_circular /\ curr_state = 1 /\ zero_ind # None
       THEN /\ matrix' = [matrix EXCEPT ![0].prev = prev]
            /\ c' = 0
            /\ nb_perc' = 0
            /\ pc' = "init_wrap"
       ELSE /\ UNCHANGED <<matrix, c, nb_perc>>
            /\ pc' = "mk_regions"
    /\ UNCHANGED <<cluster_vars, predict_vars, params, prev, zero_ind, curr_state, val, index, node,
                   new_region, rw_index, contig_regions, extracted>>

\* one turn of the while loop of the circular pass
init_wrap ==
    /\ pc = "init_wrap"
    /\ IF curr_state = 0 \/ c = zero_ind
       THEN /\ pc' = "mk_regions"
            /\ UNCHANGED <<matrix, nb_perc, curr_state, c>>
       ELSE LET m == modif(genes[c], nb_perc, persistent_penalty, variable_gain)
                curr_score == m + matrix[prev].score
            IN  /\ nb_perc' = next_nb_perc(genes[c], nb_perc)
                /\ curr_state' = IF curr_score >= 0 THEN 1 ELSE 0
                /\ matrix' = [matrix EXCEPT ![c] = changes(matrix[c], curr_score)]
                /\ c' = c + 1
                /\ pc' = "init_wrap"
    /\ UNCHANGED <<cluster_vars, predict_vars, params, prev, zero_ind, val, index, node, new_region,
                   rw_index, contig_regions, extracted>>

\* ------------------------------------------------------------------------
\* mk_regions
\* ------------------------------------------------------------------------
\* max_index_node: the scan keeps the last index whose score is >= the
\* maximum seen so far
RECURSIVE max_scan(_, _, _, _)
max_scan(lst, idx, max_score, max_index) ==
    IF idx >= Cardinality(DOMAIN lst)
    THEN <<max_score, max_index>>
    ELSE IF lst[idx].score >= max_score
         THEN max_scan(lst, idx + 1, lst[idx].score, idx)
         ELSE max_scan(lst, idx + 1, max_score, max_index)

max_index_first(lst) ==
    LET top == CHOOSE i \in DOMAIN lst : \A j \in DOMAIN lst :
                   lst[j].score < lst[i].score \/ (lst[j].score = lst[i].score /\ i <= j)
    IN  <<lst[top].score, top>>

max_index_node(lst) == max_scan(lst, 0, lst[0].score, 0)

\* the head of the while loop: the maximum is taken and tested
mk_regions ==
    /\ pc = "mk_regions"
    /\ LET found == max_index_node(matrix)
       IN  /\ val' = found[1]
           /\ index' = found[2]
           /\ IF found[1] >= min_score
              THEN /\ node' = found[2]
                   /\ new_region' = <<>>
                   /\ pc' = "extract_rgp"
              ELSE /\ UNCHANGED <<node, new_region>>
                   /\ pc' = "done"
    /\ UNCHANGED <<cluster_vars, predict_vars, params, matrix, prev, nb_perc, zero_ind, curr_state, c,
                   rw_index, contig_regions, extracted>>

extract_ignores_state(n) == TRUE

\* extract_rgp: "while node.state"
extract_continues(n) == n.state = 1

consumed_keeps_score(n) == [n EXCEPT !.state = 0]

consumed_keeps_state(n) == [n EXCEPT !.score = 0]

\* extract_rgp consumes the node it appends
consumed(n) == [n EXCEPT !.state = 0, !.score = 0]

\* one turn of the while loop of extract_rgp
extract_rgp ==
    /\ pc = "extract_rgp"
    /\ IF extract_continues(matrix[node])
       THEN /\ new_region' = Append(new_region, matrix[node].gene)
            /\ matrix' = [matrix EXCEPT ![node] = consumed(matrix[node])]
            /\ node' = matrix[node].prev
            /\ IF matrix[node].prev = None
               THEN /\ pc' = "length_filter"
                    /\ extracted' = Append(extracted, new_region')
               ELSE /\ pc' = "extract_rgp"
                    /\ UNCHANGED extracted
       ELSE /\ pc' = "length_filter"
            /\ extracted' = Append(extracted, new_region)
            /\ UNCHANGED <<new_region, matrix, node>>
    /\ UNCHANGED <<cluster_vars, predict_vars, params, prev, nb_perc, zero_ind, curr_state, c, val, index,
                   rw_index, contig_regions>>

Region(rgp_id, region_genes, score) ==
    [name |-> rgp_id, genes |-> region_genes, score |-> score]

long_enough_unsigned(region_genes, length) ==
    LET d == stop(region_genes[1]) - start(region_genes[Len(region_genes)])
    IN  (IF d < 0 THEN 0 - d ELSE d) > length

long_enough_swapped(region_genes, length) ==
    (stop(region_genes[Len(region_genes)]) - start(region_genes[1])) > length

long_enough(region_genes, length) ==
    (stop(region_genes[1]) - start(region_genes[Len(region_genes)])) > length

\* new_region.score = val and the length test; new_region[0] raises
\* IndexError on a region without genes
length_filter ==
    /\ pc = "length_filter"
    /\ IF new_region = <<>>
       THEN /\ pc' = "IndexError"
            /\ UNCHANGED contig_regions
       ELSE /\ pc' = "rewrite_matrix"
            /\ contig_regions' =
                 IF long_enough(new_region, min_length)
                 THEN contig_regions
                        \cup {Region(Cardinality(contig_regions), new_region, val)}
                 ELSE contig_regions
    /\ UNCHANGED <<cluster_vars, predict_vars, params, matrix, prev, nb_perc, zero_ind, curr_state, c, val,
                   index, node, new_region, rw_index, extracted>>

\* ------------------------------------------------------------------------
\* rewrite_matrix
\* ------------------------------------------------------------------------
rewrite_tests_score(n) == n.score >= 0

rewrite_always_continues(n) == TRUE

\* rewrite_matrix: "while next_node.state"
rewrite_continues(n) == n.state = 1

\* lines 56-63: the node after the extracted one
rewrite_first(i, len, circular) ==
    IF (i + 1) > len /\ circular THEN 0 ELSE i + 1

rewrite_matrix ==
    /\ pc = "rewrite_matrix"
    /\ prev' = index
    /\ rw_index' = rewrite_first(index, NbGenes, is_circular)
    /\ IF rw_index' < NbGenes
       THEN /\ nb_perc' = 0
            /\ pc' = "rewrite_while"
       ELSE /\ UNCHANGED nb_perc
            /\ pc' = "mk_regions"
    /\ UNCHANGED <<cluster_vars, predict_vars, params, matrix, zero_ind, curr_state, c, val, index, node,
                   new_region, contig_regions, extracted>>

\* one turn of the while loop of rewrite_matrix; next_node is matrix[rw_index]
rewrite_while ==
    /\ pc = "rewrite_while"
    /\ IF rewrite_continues(matrix[rw_index])
       THEN LET g == genes[matrix[rw_index].gene]
                m == modif(g, nb_perc, persistent_penalty, variable_gain)
                curr_score == m + matrix[prev].score
            IN  /\ nb_perc' = next_nb_perc(g, nb_perc)
                /\ matrix' = [matrix EXCEPT
                                ![rw_index] = changes(matrix[rw_index], curr_score)]
                /\ IF rw_index + 1 >= NbGenes
                   THEN IF is_circular
                        THEN /\ rw_index' = 0
                             /\ prev' = rw_index
                             /\ pc' = "rewrite_while"
                        ELSE /\ rw_index' = rw_index + 1
                             /\ UNCHANGED prev
                             /\ pc' = "mk_regions"
                   ELSE /\ rw_index' = rw_index + 1
                        /\ prev' = rw_index
                        /\ pc' = "rewrite_while"
       ELSE /\ pc' = "mk_regions"
            /\ UNCHANGED <<matrix, nb_perc, rw_index, prev>>
    /\ UNCHANGED <<cluster_vars, predict_vars, params, zero_ind, curr_state, c, val, index, node,
                   new_region, contig_regions, extracted>>

\* ------------------------------------------------------------------------
\* the prediction on one contig: compute_org_rgp's body for a contig with
\* at least one gene
\* ------------------------------------------------------------------------
RGPInit ==
    /\ genes \in Contigs
    /\ is_circular \in BOOLEAN
    /\ persistent_penalty \in Penalties
    /\ variable_gain \in Gains
    /\ min_score \in MinScores
    /\ min_length \in MinLengths
    /\ pc = "init_matrices"
    /\ matrix = <<>>
    /\ prev = None
    /\ nb_perc = 0
    /\ zero_ind = None
    /\ curr_state = None
    /\ c = None
    /\ val = None
    /\ index = None
    /\ node = None
    /\ new_region = <<>>
    /\ rw_index = None
    /\ contig_regions = {}
    /\ extracted = <<>>

\* ------------------------------------------------------------------------
\* cluster_rgp: inputs
\* ------------------------------------------------------------------------
\* tuple(rgp.families): the families of a region in the order the region
\* enumerates them, each family once; a region without gene has none
FamilyTuples ==
    UNION {{t \in [1..k -> 1..MaxFam] : \A i, j \in 1..k : t[i] = t[j] => i = j}
              : k \in 0..MaxFam}

RECURSIVE tuple_code(_)
tuple_code(t) ==
    IF t = <<>> THEN 0 ELSE Head(t) + (MaxFam + 1) * tuple_code(Tail(t))

\* Region names and family identifiers are labels that cluster_rgp only
\* compares for equality: of the inputs that differ by a renaming of the
\* regions or of the families one is kept, the one whose tuple codes, in
\* increasing order, come first
Renamings == {p \in [1..MaxFam -> 1..MaxFam] : \A i, j \in 1..MaxFam : p[i] = p[j] => i = j}

renamed(r, p) == [i \in DOMAIN r |-> [j \in DOMAIN r[i] |-> p[r[i][j]]]]

codes(r) == SortSeq([i \in DOMAIN r |-> tuple_code(r[i])], <)

RECURSIVE comes_first(_, _)
comes_first(a, b) ==
    \/ a = <<>>
    \/ Head(a) < Head(b)
    \/ Head(a) = Head(b) /\ comes_first(Tail(a), Tail(b))

RegionSets ==
    UNION {{r \in [1..n -> FamilyTuples] :
               /\ \A i, j \in 1..n : i < j => tuple_code(r[i]) <= tuple_code(r[j])
               /\ \A p \in Renamings : comes_first(codes(r), codes(renamed(r, p)))}
              : n \in 1..MaxRGP}

Cpus == {1, 2}

\* simplify_rgp_object
family_ids(t) == {t[i] : i \in DOMAIN t}
simplify_rgp_object(r) == <<r, family_ids(rgps[r])>>

\* ------------------------------------------------------------------------
\* the metrics; a float quotient is kept as the reduced fraction <<n, d>>
\* ------------------------------------------------------------------------
RECURSIVE gcd(_, _)
gcd(a, b) == IF b = 0 THEN a ELSE gcd(b, a % b)

quotient(a, b) ==
    IF b = 0 THEN <<a, 0>> ELSE <<a \div gcd(a, b), b \div gcd(a, b)>>

min(a, b) == IF a <= b THEN a ELSE b
max(a, b) == IF a >= b THEN a ELSE b
mode_first(name, a, b) == a

\* the function given to compute_grr: min or max
mode(name, a, b) == IF name = "min" THEN min(a, b) ELSE max(a, b)

compute_grr(rgp_a_families, rgp_b_families, m) ==
    quotient(Cardinality(rgp_a_families \cap rgp_b_families),
             mode(m, Cardinality(rgp_a_families), Cardinality(rgp_b_families)))

compute_jaccard_index(rgp_a_families, rgp_b_families) ==
    quotient(Cardinality(rgp_a_families \cap rgp_b_families),
             Cardinality(rgp_a_families \cup rgp_b_families))

edge_metrics_swapped(rgp_a_fam, rgp_b_fam) ==
    [min_grr |-> compute_grr(rgp_a_fam, rgp_b_fam, "max"),
     max_grr |-> compute_grr(rgp_a_fam, rgp_b_fam, "min"),
     jaccard_index |-> compute_jaccard_index(rgp_a_fam, rgp_b_fam),
     identical |-> FALSE]

\* compute_rgp_metric: the attributes of one edge (identical is not set)
edge_metrics(rgp_a_fam, rgp_b_fam) ==
    [min_grr |-> compute_grr(rgp_a_fam, rgp_b_fam, "min"),
     max_grr |-> compute_grr(rgp_a_fam, rgp_b_fam, "max"),
     jaccard_index |-> compute_jaccard_index(rgp_a_fam, rgp_b_fam),
     identical |-> FALSE]

any_pair(rgp_a_fam, rgp_b_fam) == TRUE

\* compute_rgp_metric: "if rgp_a_fam & rgp_b_fam"
share_family(rgp_a_fam, rgp_b_fam) == (rgp_a_fam \cap rgp_b_fam) # {}

RECURSIVE compute_rgp_metric(_)
compute_rgp_metric(pairs_of_rgps) ==
    IF pairs_of_rgps = <<>> THEN <<>>
    ELSE LET a == Head(pairs_of_rgps)[1]
             b == Head(pairs_of_rgps)[2]
         IN  (IF share_family(a[2], b[2])
              THEN << <<a[1], b[1], edge_metrics(a[2], b[2])>> >>
              ELSE <<>>)
                 \o compute_rgp_metric(Tail(pairs_of_rgps))

\* ------------------------------------------------------------------------
\* dereplicate_rgp
\* ------------------------------------------------------------------------
one_key(r) == <<>>

\* the key of families_to_rgps
families_key(r) == rgps[r]

same_set(group, popped) == group

\* rgps.pop(): the popped region becomes the key, the set that stays behind
\* is the value
after_pop(group, popped) == group \ {popped}

\* the dicts dereplicate_rgp can return on the regions of some_rgps: set.pop
\* takes an arbitrary region of each group
dereplicate_rgp_results(some_rgps) ==
    LET group(k) == {r \in some_rgps : families_key(r) = k}
    IN  {[rep \in popped |-> after_pop(group(families_key(rep)), rep)]
            : popped \in {s \in SUBSET some_rgps :
                             \A r \in some_rgps :
                                 Cardinality(s \cap group(families_key(r))) = 1}}

dereplicate_rgp ==
    /\ cpc = "dereplicate_rgp"
    /\ uniq_rgps' \in dereplicate_rgp_results(DOMAIN rgps)
    /\ cpc' = "make_chunks"
    /\ UNCHANGED <<rgp_vars, predict_vars, rgps, cpu, grr_nodes, grr_edges, chunks, task,
                   outqueue, pool, written>>

\* ------------------------------------------------------------------------
\* cluster_rgp: nodes, pairs and chunks
\* ------------------------------------------------------------------------
\* the keys of uniq_rgps in the order of the dict: the order in which the
\* regions brought their tuple to families_to_rgps
group_first(rep) ==
    CHOOSE r \in {rep} \cup uniq_rgps[rep] :
        \A q \in {rep} \cup uniq_rgps[rep] : r <= q

RECURSIVE in_dict_order(_)
in_dict_order(reps) ==
    IF reps = {} THEN <<>>
    ELSE LET x == CHOOSE x \in reps :
                      \A y \in reps : group_first(x) <= group_first(y)
         IN  <<x>> \o in_dict_order(reps \ {x})

RECURSIVE combinations(_)
combinations(s) ==
    IF Len(s) < 2 THEN <<>>
    ELSE [i \in 1..(Len(s) - 1) |-> <<s[1], s[i + 1]>>] \o combinations(Tail(s))

ChunksPerCpu == 10

chunk_size_floor(pairs_count, n_cpu) == pairs_count \div (n_cpu * ChunksPerCpu)

chunk_size(pairs_count, n_cpu) == (pairs_count \div (n_cpu * ChunksPerCpu)) + 1

RECURSIVE make_chunks(_, _)
make_chunks(iterable, size) ==
    LET n == min(size, Len(iterable))
        piece == [i \in 1..n |-> <<simplify_rgp_object(iterable[i][1]),
                                   simplify_rgp_object(iterable[i][2])>>]
    IN  IF piece = <<>> THEN <<>>
        ELSE <<piece>> \o make_chunks(SubSeq(iterable, n + 1, Len(iterable)), size)

\* lines 168-178
cluster_rgp_chunks ==
    /\ cpc = "make_chunks"
    /\ LET rgp_count == Cardinality(DOMAIN uniq_rgps)
           pairs_count == ((rgp_count * rgp_count) - rgp_count) \div 2
           rgp_pairs == combinations(in_dict_order(DOMAIN uniq_rgps))
       IN  /\ grr_nodes' = [n \in DOMAIN uniq_rgps |->
                               [identical |-> FALSE, clusters |-> {}]]
           /\ chunks' = make_chunks(rgp_pairs, chunk_size(pairs_count, cpu))
    /\ cpc' = "Pool"
    /\ UNCHANGED <<rgp_vars, predict_vars, rgps, cpu, uniq_rgps, grr_edges, task, outqueue,
                   pool, written>>

\* ------------------------------------------------------------------------
\* the pool and the for loop over imap_unordered
\* ------------------------------------------------------------------------
\* with get_context('fork').Pool(processes=cpu) as p, and the call of
\* imap_unordered: every chunk is handed to the pool
pool_enter ==
    /\ cpc = "Pool"
    /\ pool' = [state |-> "RUN", closed |-> FALSE, joined |-> FALSE]
    /\ task' = [k \in 1..Len(chunks) |-> "queued"]
    /\ cpc' = "imap_unordered"
    /\ UNCHANGED <<rgp_vars, predict_vars, rgps, cpu, uniq_rgps, grr_nodes, grr_edges,
                   chunks, outqueue, written>>

running == {k \in DOMAIN task : task[k] = "running"}

\* a free worker takes the next chunk of the task queue
worker_start(k) ==
    /\ pool.state = "RUN"
    /\ task[k] = "queued"
    /\ \A j \in DOMAIN task : j < k => task[j] # "queued"
    /\ Cardinality(running) < cpu
    /\ task' = [task EXCEPT ![k] = "running"]
    /\ UNCHANGED <<rgp_vars, predict_vars, rgps, cpu, cpc, uniq_rgps, grr_nodes, grr_edges,
                   chunks, outqueue, pool, written>>

\* the outcomes of an evaluation.  The for loop ends at the first failed
\* result it takes from the queue and never reads the results behind it:
\* a second failure behind a queued one is a run the program cannot tell
\* from the run where that evaluation succeeds, and is left out.
outcomes == IF \E i \in DOMAIN outqueue : ~outqueue[i].ok THEN {TRUE} ELSE BOOLEAN

\* the worker ends compute_rgp_metric on its chunk: with the list of edges,
\* or with an exception
worker_finish(k) ==
    /\ pool.state = "RUN"
    /\ task[k] = "running"
    /\ \E ok \in outcomes :
          /\ task' = [task EXCEPT ![k] = IF ok THEN "done" ELSE "failed"]
          /\ outqueue' = Append(outqueue,
                [chunk |-> k, ok |-> ok,
                 value |-> IF ok THEN compute_rgp_metric(chunks[k]) ELSE <<>>])
    /\ UNCHANGED <<rgp_vars, predict_vars, rgps, cpu, cpc, uniq_rgps, grr_nodes, grr_edges,
                   chunks, pool, written>>

add_edges_from_replacing(edges, ebunch) ==
    [e \in {{ebunch[i][1], ebunch[i][2]} : i \in DOMAIN ebunch} |->
        LET i == CHOOSE i \in DOMAIN ebunch : {ebunch[i][1], ebunch[i][2]} = e
        IN  ebunch[i][3]]

\* grr_graph.add_edges_from
add_edges_from(edges, ebunch) ==
    LET new == {{ebunch[i][1], ebunch[i][2]} : i \in DOMAIN ebunch}
        last(e) == CHOOSE i \in DOMAIN ebunch :
                      /\ {ebunch[i][1], ebunch[i][2]} = e
                      /\ \A j \in DOMAIN ebunch :
                            {ebunch[j][1], ebunch[j][2]} = e => j <= i
    IN  [e \in (DOMAIN edges) \cup new |->
            IF e \in new THEN ebunch[last(e)][3] ELSE edges[e]]

\* Pool.terminate: the workers are stopped, whatever they were evaluating
terminated(t) ==
    [k \in DOMAIN t |->
        IF t[k] = "running" THEN "killed"
        ELSE IF t[k] = "queued" THEN "discarded" ELSE t[k]]

caught_in_loop == "louvain_communities"

\* no try statement stands around the for loop or the with block: the
\* exception of a worker leaves cluster_rgp
raise_from_loop == "raised"

\* one turn of the for loop: the next result that arrived is merged, or
\* the exception it carries is raised and leaves the with block, whose __exit__
\* terminates the pool
imap_next ==
    /\ cpc = "imap_unordered"
    /\ outqueue # <<>>
    /\ outqueue' = Tail(outqueue)
    /\ IF Head(outqueue).ok
       THEN /\ grr_edges' = add_edges_from(grr_edges, Head(outqueue).value)
            /\ task' = [task EXCEPT ![Head(outqueue).chunk] = "merged"]
            /\ UNCHANGED <<cpc, pool>>
       ELSE /\ pool' = [pool EXCEPT !.state = "TERMINATE"]
            /\ task' = terminated([task EXCEPT ![Head(outqueue).chunk] = "raised"])
            /\ cpc' = raise_from_loop
            /\ UNCHANGED grr_edges
    /\ UNCHANGED <<rgp_vars, predict_vars, rgps, cpu, uniq_rgps, grr_nodes, chunks, written>>

\* the iterator is exhausted: every chunk gave its result
imap_exhausted ==
    /\ cpc = "imap_unordered"
    /\ \A k \in DOMAIN task : task[k] = "merged"
    /\ cpc' = "close"
    /\ UNCHANGED <<rgp_vars, predict_vars, rgps, cpu, uniq_rgps, grr_nodes, grr_edges,
                   chunks, task, outqueue, pool, written>>

pool_close ==
    /\ cpc = "close"
    /\ pool' = [pool EXCEPT !.state = "CLOSE", !.closed = TRUE]
    /\ cpc' = "join"
    /\ UNCHANGED <<rgp_vars, predict_vars, rgps, cpu, uniq_rgps, grr_nodes, grr_edges,
                   chunks, task, outqueue, written>>

pool_join ==
    /\ cpc = "join"
    /\ running = {}
    /\ pool' = [pool EXCEPT !.joined = TRUE]
    /\ cpc' = "exit"
    /\ UNCHANGED <<rgp_vars, predict_vars, rgps, cpu, uniq_rgps, grr_nodes, grr_edges,
                   chunks, task, outqueue, written>>

\* the end of the with block
pool_exit ==
    /\ cpc = "exit"
    /\ pool' = [pool EXCEPT !.state = "TERMINATE"]
    /\ cpc' = "louvain_communities"
    /\ UNCHANGED <<rgp_vars, predict_vars, rgps, cpu, uniq_rgps, grr_nodes, grr_edges,
                   chunks, task, outqueue, written>>

\* ------------------------------------------------------------------------
\* the three clusterings
\* ------------------------------------------------------------------------
Metrics == {"min_grr", "max_grr", "jaccard_index"}

\* lines 192-207: louvain_communities gives a partition of the nodes of the
\* graph for each metric, and every node of every part gets the label of its
\* part.  The partitions are the work of networkx: a node keeps the names
\* of the labels it was given, not the part it fell in.
louvain_communities ==
    /\ cpc = "louvain_communities"
    /\ grr_nodes' = [n \in DOMAIN grr_nodes |->
                        [grr_nodes[n] EXCEPT !.clusters = Metrics]]
    /\ cpc' = "add_identical_rgps"
    /\ UNCHANGED <<rgp_vars, predict_vars, rgps, cpu, uniq_rgps, grr_edges, chunks, task,
                   outqueue, pool, written>>

\* ------------------------------------------------------------------------
\* add_identical_rgps and the graph files
\* ------------------------------------------------------------------------
identical_edge_unflagged ==
    [min_grr |-> quotient(1, 1), max_grr |-> quotient(1, 1),
     jaccard_index |-> quotient(1, 1), identical |-> FALSE]

\* add_edge(rgp.name, identical_rgp.name, ...)
identical_edge ==
    [min_grr |-> quotient(1, 1), max_grr |-> quotient(1, 1),
     jaccard_index |-> quotient(1, 1), identical |-> TRUE]

\* add_node(identical_rgp.name, identical=True): a new node, with no other
\* attribute
alias_node == [identical |-> TRUE, clusters |-> {}]

add_identical_rgps ==
    /\ cpc = "add_identical_rgps"
    /\ LET aliases == UNION {uniq_rgps[rep] : rep \in DOMAIN uniq_rgps}
           links == {{rep, a} : rep \in DOMAIN uniq_rgps, a \in aliases}
           linked == {e \in links :
                        \E rep \in DOMAIN uniq_rgps :
                           \E a \in uniq_rgps[rep] : e = {rep, a}}
       IN  /\ grr_edges' = [e \in (DOMAIN grr_edges) \cup linked |->
                               IF e \in linked THEN identical_edge ELSE grr_edges[e]]
           /\ grr_nodes' = [n \in (DOMAIN grr_nodes) \cup aliases |->
                               IF n \in aliases THEN alias_node
                               ELSE grr_nodes[n]]
    /\ cpc' = "write"
    /\ UNCHANGED <<rgp_vars, predict_vars, rgps, cpu, uniq_rgps, chunks, task, outqueue,
                   pool, written>>

write_graph ==
    /\ cpc = "write"
    /\ written' = {"grrGraph.gexf", "grrGraph.graphml"}
    /\ cpc' = "done"
    /\ UNCHANGED <<rgp_vars, predict_vars, rgps, cpu, uniq_rgps, grr_nodes, grr_edges,
                   chunks, task, outqueue, pool>>

\* ------------------------------------------------------------------------
\* the two programs
\* ------------------------------------------------------------------------
RGPIdle ==
    /\ genes = <<>>
    /\ is_circular = FALSE
    /\ persistent_penalty = 3
    /\ variable_gain = 1
    /\ min_score = 4
    /\ min_length = 3000
    /\ pc = "idle"
    /\ matrix = <<>>
    /\ prev = None
    /\ nb_perc = 0
    /\ zero_ind = None
    /\ curr_state = None
    /\ c = None
    /\ val = None
    /\ index = None
    /\ node = None
    /\ new_region = <<>>
    /\ rw_index = None
    /\ contig_regions = {}
    /\ extracted = <<>>

ClusterIdle ==
    /\ rgps = <<>>
    /\ cpu = 1
    /\ cpc = "idle"
    /\ uniq_rgps = <<>>
    /\ grr_nodes = <<>>
    /\ grr_edges = <<>>
    /\ chunks = <<>>
    /\ task = <<>>
    /\ outqueue = <<>>
    /\ pool = [state |-> "none", closed |-> FALSE, joined |-> FALSE]
    /\ written = {}

ClusterInit ==
    /\ rgps \in RegionSets
    /\ cpu \in Cpus
    /\ cpc = "dereplicate_rgp"
    /\ uniq_rgps = <<>>
    /\ grr_nodes = <<>>
    /\ grr_edges = <<>>
    /\ chunks = <<>>
    /\ task = <<>>
    /\ outqueue = <<>>
    /\ pool = [state |-> "none", closed |-> FALSE, joined |-> FALSE]
    /\ written = {}

\* ------------------------------------------------------------------------
\* predict_rgp
\* ------------------------------------------------------------------------
Statuses == {"No", "inFile"}

refused_never(st, f) == FALSE

\* check_pangenome_former_rgp: the test of the raise
refused(st, f) == st = "inFile" /\ ~f

\* raises, or erases the RGPs of the former run (erase_pangenome with
\* rgp=True), or has nothing to do
check_pangenome_former_rgp ==
    /\ ppc = "check_pangenome_former_rgp"
    /\ IF refused(status, force)
       THEN /\ ppc' = "AlreadyComputed"
            /\ UNCHANGED <<status, file_rgp>>
       ELSE /\ ppc' = "check_pangenome_info"
            /\ IF status = "inFile" /\ force
               THEN status' = "No" /\ file_rgp' = FALSE
               ELSE UNCHANGED <<status, file_rgp>>
    /\ UNCHANGED <<rgp_vars, cluster_vars, force, loaded, regions, parameters>>

check_pangenome_info ==
    /\ ppc = "check_pangenome_info"
    /\ loaded' = TRUE
    /\ ppc' = "compute_org_rgp"
    /\ UNCHANGED <<rgp_vars, cluster_vars, status, force, file_rgp, regions,
                   parameters>>

\* pangenome.add_regions(compute_org_rgp(...)), for the organism of the
\* pangenome and its contig
add_regions ==
    /\ ppc = "compute_org_rgp"
    /\ pc = "done"
    /\ regions' = regions \cup contig_regions
    /\ ppc' = "parameters"
    /\ UNCHANGED <<rgp_vars, cluster_vars, status, force, file_rgp, loaded,
                   parameters>>

\* lines 260-266
save_parameters ==
    /\ ppc = "parameters"
    /\ parameters' = ("RGP" :> [persistent_penalty |-> persistent_penalty,
                                variable_gain |-> variable_gain,
                                min_length |-> min_length,
                                min_score |-> min_score])
    /\ status' = "Computed"
    /\ ppc' = "done"
    /\ UNCHANGED <<rgp_vars, cluster_vars, force, file_rgp, loaded, regions>>

PredictIdle ==
    /\ status = "No"
    /\ force = FALSE
    /\ file_rgp = FALSE
    /\ loaded = FALSE
    /\ regions = {}
    /\ parameters = <<>>
    /\ ppc = "idle"

\* the pangenome of launch: nothing loaded, its status read from the file
PredictInit ==
    /\ status \in Statuses
    /\ force \in BOOLEAN
    /\ file_rgp = (status = "inFile")
    /\ loaded = FALSE
    /\ regions = {}
    /\ parameters = <<>>
    /\ ppc = "check_pangenome_former_rgp"

Init == RGPInit /\ ClusterIdle /\ PredictIdle

Next ==
    \/ init_matrices
    \/ init_circular
    \/ init_wrap
    \/ mk_regions
    \/ extract_rgp
    \/ length_filter
    \/ rewrite_matrix
    \/ rewrite_while

Spec == Init /\ [][Next]_vars

\* the prediction is one sequential call: a step that can be taken is taken
FairSpec == Spec /\ WF_vars(Next)

\* cluster_rgp on the regions of a pangenome
ClusterStart == ClusterInit /\ RGPIdle /\ PredictIdle

ClusterNext ==
    \/ dereplicate_rgp
    \/ cluster_rgp_chunks
    \/ pool_enter
    \/ \E k \in DOMAIN task : worker_start(k)
    \/ \E k \in DOMAIN task : worker_finish(k)
    \/ imap_next
    \/ imap_exhausted
    \/ pool_close
    \/ pool_join
    \/ pool_exit
    \/ louvain_communities
    \/ add_identical_rgps
    \/ write_graph

ClusterSpec == ClusterStart /\ [][ClusterNext]_vars

\* the start of cluster_rgp, to the chunks, on more regions: each region has
\* one family, regions of the same family stand together, and the families
\* are numbered in the order of their first region (names and identifiers
\* are labels).  Enough representatives for chunks of several pairs.
RECURSIVE regions_of_length(_)
regions_of_length(n) ==
    IF n = 1 THEN {<<(<<1>>)>>}
    ELSE UNION {{Append(r, <<f>>) : f \in {r[n - 1][1], r[n - 1][1] + 1}}
                   : r \in regions_of_length(n - 1)}

SingleFamilyRegions == UNION {regions_of_length(n) : n \in 1..MaxReps}

ChunkStart ==
    /\ rgps \in SingleFamilyRegions
    /\ cpu \in Cpus
    /\ cpc = "dereplicate_rgp"
    /\ uniq_rgps = <<>>
    /\ grr_nodes = <<>>
    /\ grr_edges = <<>>
    /\ chunks = <<>>
    /\ task = <<>>
    /\ outqueue = <<>>
    /\ pool = [state |-> "none", closed |-> FALSE, joined |-> FALSE]
    /\ written = {}
    /\ RGPIdle
    /\ PredictIdle

ChunkNext ==
    \/ dereplicate_rgp
    \/ cluster_rgp_chunks

ChunkSpec == ChunkStart /\ [][ChunkNext]_vars

\* predict_rgp on a pangenome of one organism with one contig
PredictStart == RGPInit /\ ClusterIdle /\ PredictInit

compute_org_rgp == ppc = "compute_org_rgp" /\ Next

PredictNext ==
    \/ check_pangenome_former_rgp
    \/ check_pangenome_info
    \/ compute_org_rgp
    \/ add_regions
    \/ save_parameters

PredictSpec == PredictStart /\ [][PredictNext]_vars

\* ------------------------------------------------------------------------
\* Properties of the prediction on one contig
\* ------------------------------------------------------------------------
Ones(mat) == Cardinality({i \in DOMAIN mat : mat[i].state = 1})

\* every region built so far, the one extract_rgp is still filling included
Built == IF pc = "extract_rgp" THEN Append(extracted, new_region) ELSE extracted

Occurrences(g) ==
    Cardinality({ki \in (1..Len(Built)) \X (1..(2 * NbGenes)) :
                    ki[2] <= Len(Built[ki[1]]) /\ Built[ki[1]][ki[2]] = g})

RECURSIVE TotalGenes(_)
TotalGenes(built) ==
    IF built = <<>> THEN 0
    ELSE Len(Head(built)) + TotalGenes(Tail(built))

\* C1: with min_score >= 1, no gene of the contig is appended to more than
\* one region during mk_regions (regions dropped by the length filter
\* included), so the genes of all extracted regions together never
\* outnumber the genes of the contig.
C1_GeneConsumedOnce ==
    min_score >= 1 =>
        /\ \A g \in DOMAIN genes : Occurrences(g) <= 1
        /\ TotalGenes(Built) <= NbGenes

\* a run that ended after several extractions, one of them dropped by the
\* length filter
C1_Witness ==
    /\ pc = "done"
    /\ min_score >= 1
    /\ Len(extracted) >= 2
    /\ Cardinality(contig_regions) < Len(extracted)

\* the first turn of an extraction consumes a node, and no step of
\* mk_regions brings a node back to state 1
ExtractionReduces ==
    /\ (pc \notin {"init_matrices", "init_circular", "init_wrap"})
          => Ones(matrix') <= Ones(matrix)
    /\ (pc = "extract_rgp" /\ new_region = <<>> /\ min_score >= 1)
          => Ones(matrix') < Ones(matrix)

\* C2: for every non-empty contig, linear or circular, and min_score >= 1,
\* init_matrices followed by mk_regions comes to its end (the return of
\* mk_regions) after finitely many steps, and every extraction strictly
\* reduces the number of nodes in state 1.
C2_Terminates ==
    /\ [][ExtractionReduces]_vars
    /\ (min_score >= 1) ~> (pc = "done")

\* a circular contig whose first node was rewired to the last one, done
\* after at least one extraction
C2_Witness ==
    /\ pc = "done"
    /\ min_score >= 1
    /\ is_circular
    /\ NbGenes >= 2
    /\ matrix[0].prev = NbGenes - 1
    /\ Len(extracted) >= 1

IsPersistentThenVariable ==
    /\ genes = ScenarioPersistentThenVariable
    /\ ~is_circular
    /\ persistent_penalty = 3
    /\ variable_gain = 1

AfterInit == pc = "mk_regions" /\ extracted = <<>>

\* C3 as stated: on [persistent x3, variable x4], penalty 3, gain 1, every
\* score is 0 after init_matrices and mk_regions with min_score = 4
\* extracts no region.
C3_AsStated ==
    IsPersistentThenVariable =>
        /\ AfterInit => \A i \in DOMAIN matrix : matrix[i].score = 0
        /\ min_score = 4 => (extracted = <<>> /\ pc # "extract_rgp")

\* C3 amended: on [persistent x3, variable x4], linear, penalty 3, gain 1,
\* the scores after init_matrices are 0,0,0,1,2,3,4 (each score is built on
\* the clamped score before it); with min_score = 4 mk_regions extracts
\* exactly one region, from node 6 with score 4 and genes 6,5,4,3, and
\* keeps it iff stop(gene 6) - start(gene 3) > min_length.
C3_ScenarioScores ==
    IsPersistentThenVariable =>
        /\ AfterInit =>
             [i \in 1..7 |-> matrix[i - 1].score] = <<0, 0, 0, 1, 2, 3, 4>>
        /\ (min_score = 4 /\ pc = "done") =>
             /\ extracted = << <<6, 5, 4, 3>> >>
             /\ contig_regions =
                  IF stop(6) - start(3) > min_length
                  THEN {Region(0, <<6, 5, 4, 3>>, 4)}
                  ELSE {}

C3_Witness ==
    /\ IsPersistentThenVariable
    /\ min_score = 4
    /\ pc = "done"
    /\ contig_regions # {}

IsAllVariable == genes = ScenarioAllVariable /\ variable_gain = 1

\* C4: on a contig of 10 variable genes with gain 1 the scores after
\* init_matrices are 1,2,...,10; with min_score = 4 and min_length = 0
\* mk_regions returns exactly one region, extracted from node 9 with score
\* 10 and holding the 10 genes of the contig.
C4_WholeContigRegion ==
    IsAllVariable =>
        /\ AfterInit => \A i \in 0..9 : matrix[i].score = i + 1
        /\ (min_score = 4 /\ min_length = 0 /\ pc = "done") =>
             /\ extracted = << <<9, 8, 7, 6, 5, 4, 3, 2, 1, 0>> >>
             /\ contig_regions =
                  {Region(0, <<9, 8, 7, 6, 5, 4, 3, 2, 1, 0>>, 10)}

C4_Witness ==
    /\ IsAllVariable
    /\ min_score = 4
    /\ min_length = 0
    /\ pc = "done"
    /\ Cardinality(contig_regions) = 1

\* C5: every region extract_rgp returns to mk_regions holds at least one
\* gene, for every min_score (min_score <= 0 included); no region without
\* genes is created or indexed.
C5_NoEmptyRegion ==
    /\ \A k \in 1..Len(extracted) : extracted[k] # <<>>
    /\ pc # "IndexError"

\* ------------------------------------------------------------------------
\* Properties of cluster_rgp
\* ------------------------------------------------------------------------
\* the attributes compute_rgp_metric gave to an edge: those of the results
\* that wait in the queue and those merged into the graph
ComputedMetrics ==
    UNION {{outqueue[i].value[j][3] : j \in DOMAIN outqueue[i].value}
              : i \in DOMAIN outqueue} \cup
    {grr_edges[e] : e \in {x \in DOMAIN grr_edges : ~grr_edges[x].identical}}

\* x >= y for two quotients of naturals with positive denominators
AtLeast(x, y) == x[1] * y[2] >= y[1] * x[2]

InUnitInterval(x) == x[2] > 0 /\ 0 <= x[1] /\ x[1] <= x[2]

\* C6 as stated: on every edge compute_rgp_metric computed,
\* max_grr >= min_grr.
C6_AsStated ==
    \A m \in ComputedMetrics : AtLeast(m.max_grr, m.min_grr)

\* C6 amended: for every pair of family sets with a non-empty intersection,
\* the edge stored by compute_rgp_metric has min_grr >= max_grr (min_grr
\* divides the intersection by the smaller set, max_grr by the larger one),
\* and both lie in [0, 1].
C6_MinAtLeastMax ==
    \A m \in ComputedMetrics :
        /\ AtLeast(m.min_grr, m.max_grr)
        /\ InUnitInterval(m.min_grr)
        /\ InUnitInterval(m.max_grr)

\* the graph is written with an edge whose min_grr is above its max_grr
C6_Witness ==
    /\ cpc = "done"
    /\ \E e \in DOMAIN grr_edges :
          /\ ~grr_edges[e].identical
          /\ ~AtLeast(grr_edges[e].max_grr, grr_edges[e].min_grr)

Dereplicated == cpc \notin {"idle", "dereplicate_rgp"}

SameGroup(a, b) ==
    \E rep \in DOMAIN uniq_rgps : {a, b} \subseteq ({rep} \cup uniq_rgps[rep])

\* C7: dereplicate_rgp puts two regions in the same group (a representative
\* and its alias, or two aliases of one representative) if and only if
\* their sets of gene families are equal, whatever the order in which each
\* region enumerates its families.
C7_GroupsByFamilySet ==
    Dereplicated =>
        \A a, b \in DOMAIN rgps :
            SameGroup(a, b) <=> (family_ids(rgps[a]) = family_ids(rgps[b]))

LoopDone ==
    cpc \in {"close", "join", "exit", "louvain_communities",
             "add_identical_rgps", "write", "done"}

Representatives == DOMAIN uniq_rgps

DenominatorsNotZero(m) ==
    m.min_grr[2] # 0 /\ m.max_grr[2] # 0 /\ m.jaccard_index[2] # 0

\* C8: in the graph built by cluster_rgp two distinct representatives are
\* joined by an edge carrying min_grr, max_grr and jaccard_index if and only
\* if their family-ID sets share a family; a pair without shared family
\* gets no edge, and no metric is computed with a zero denominator.
C8_EdgeIffSharedFamily ==
    /\ \A m \in ComputedMetrics : DenominatorsNotZero(m)
    /\ LoopDone =>
          \A a, b \in Representatives :
              a # b =>
                 LET fa == family_ids(rgps[a])
                     fb == family_ids(rgps[b])
                 IN  IF (fa \cap fb) # {}
                     THEN /\ {a, b} \in DOMAIN grr_edges
                          /\ grr_edges[{a, b}] =
                               [min_grr |-> compute_grr(fa, fb, "min"),
                                max_grr |-> compute_grr(fa, fb, "max"),
                                jaccard_index |-> compute_jaccard_index(fa, fb),
                                identical |-> FALSE]
                     ELSE {a, b} \notin DOMAIN grr_edges

\* the graph is written with an edge between two representatives, two other
\* representatives have no family in common, and one has no family at all
C8_Witness ==
    /\ cpc = "done"
    /\ \E a, b \in Representatives : a # b /\ {a, b} \in DOMAIN grr_edges
    /\ \E a, b \in Representatives : a # b /\ {a, b} \notin DOMAIN grr_edges
    /\ \E a \in Representatives : rgps[a] = <<>>

\* the chunks and places where the pair of representatives {a, b} is found
PlacesOf(a, b) ==
    UNION {{<<k, i>> : i \in {i \in DOMAIN chunks[k] :
                                {chunks[k][i][1][1], chunks[k][i][2][1]} = {a, b}}}
              : k \in DOMAIN chunks}

\* the edges of the pairs of the chunks of K, whatever the order of K
EdgesOfChunks(K) ==
    LET named == UNION {{<<chunks[k][i][1][1], chunks[k][i][2][1]>>
                            : i \in DOMAIN chunks[k]} : k \in K}
        pairs == {p \in named :
                     (family_ids(rgps[p[1]]) \cap family_ids(rgps[p[2]])) # {}}
    IN  [e \in {{p[1], p[2]} : p \in pairs} |->
            LET p == CHOOSE p \in pairs : {p[1], p[2]} = e
            IN  [min_grr |-> compute_grr(family_ids(rgps[p[1]]),
                                         family_ids(rgps[p[2]]), "min"),
                 max_grr |-> compute_grr(family_ids(rgps[p[1]]),
                                         family_ids(rgps[p[2]]), "max"),
                 jaccard_index |-> compute_jaccard_index(family_ids(rgps[p[1]]),
                                                         family_ids(rgps[p[2]])),
                 identical |-> FALSE]]

Merged == {k \in DOMAIN task : task[k] = "merged"}

\* C9: the graph cluster_rgp builds is the same for every order in which
\* the pool completes the chunks: every unordered pair of representatives
\* stands in exactly one chunk, once, so during the loop the edges of the
\* graph are a function of the set of chunks merged so far, and after the
\* loop the nodes are the representatives and the edges those of all
\* chunks.  (The chunks are looked at when they have just been built.)
C9_CompletionOrderFree ==
    /\ cpc = "Pool" =>
          \A a, b \in Representatives :
              a # b => Cardinality(PlacesOf(a, b)) = 1
    /\ (cpc \in {"imap_unordered", "raised"}) =>
          grr_edges = EdgesOfChunks(Merged)
    /\ (cpc \in {"close", "join", "exit", "louvain_communities",
                 "add_identical_rgps"}) =>
          /\ DOMAIN grr_nodes = Representatives
          /\ grr_edges = EdgesOfChunks(DOMAIN chunks)

\* the second chunk was merged with an edge while the first chunk, with an
\* edge of its own to bring, was not merged yet
C9_Witness ==
    /\ cpc = "imap_unordered"
    /\ Len(chunks) >= 2
    /\ task[2] = "merged"
    /\ task[1] # "merged"
    /\ grr_edges # <<>>
    /\ EdgesOfChunks({1}) # <<>>

\* C10: the pool created by cluster_rgp is closed and joined on both paths:
\* when every chunk evaluation succeeds, and when a chunk evaluation fails
\* in a worker.
C10_ClosedAndJoined ==
    (cpc \in {"raised", "louvain_communities", "add_identical_rgps",
              "write", "done"}) =>
        pool.closed /\ pool.joined

\* C11: when a chunk evaluation fails in a worker, cluster_rgp raises the
\* error only after every chunk that was in flight at that moment has
\* completed; no in-flight chunk is killed.  The chunks start in the order
\* of their index: a chunk before the failed one that is still with a
\* worker when the error is raised was in flight when the failure happened.
C11_InFlightDrained ==
    cpc = "raised" =>
        \A f, k \in DOMAIN task :
            (task[f] = "raised" /\ k < f) => task[k] # "killed"

Failed == {k \in DOMAIN task : task[k] \in {"failed", "raised"}}

\* C12: if a chunk evaluation fails, cluster_rgp writes neither
\* grrGraph.gexf nor grrGraph.graphml: the files are written only after
\* every chunk was merged and the three clusterings gave their labels, so
\* the edges merged before the failure are not persisted.
C12_NothingWrittenOnFailure ==
    /\ (Failed # {} \/ cpc = "raised") => written = {}
    /\ written # {} =>
          /\ \A k \in DOMAIN task : task[k] = "merged"
          /\ \A n \in Representatives : grr_nodes[n].clusters = Metrics

\* the error was raised when the graph already held an edge of a chunk that
\* had completed
C12_Witness ==
    /\ cpc = "raised"
    /\ Merged # {}
    /\ grr_edges # <<>>
    /\ written = {}

\* C13: two runs of cluster_rgp on the same regions give the same result,
\* first of all the same representative in every group of identical RGPs:
\* the dict this run got from dereplicate_rgp is the only one the call can
\* return.
C13_SameResultOnRerun ==
    Dereplicated => dereplicate_rgp_results(DOMAIN rgps) = {uniq_rgps}

Aliases == UNION {uniq_rgps[rep] : rep \in Representatives}

EdgesAt(n) == {e \in DOMAIN grr_edges : n \in e}

\* C14: after add_identical_rgps every alias is a node of the graph flagged
\* identical, its only edge goes to its own representative and carries
\* min_grr = max_grr = jaccard_index = 1 and identical = TRUE, and the alias
\* has none of the three cluster labels.
C14_AliasesAttached ==
    (cpc \in {"write", "done"}) =>
        \A rep \in Representatives :
            \A a \in uniq_rgps[rep] :
               /\ a \in DOMAIN grr_nodes
               /\ grr_nodes[a].identical
               /\ grr_nodes[a].clusters = {}
               /\ EdgesAt(a) = {{rep, a}}
               /\ grr_edges[{rep, a}].identical
               /\ grr_edges[{rep, a}].min_grr = <<1, 1>>
               /\ grr_edges[{rep, a}].max_grr = <<1, 1>>
               /\ grr_edges[{rep, a}].jaccard_index = <<1, 1>>

\* the graph is written with an alias, and with two representatives that
\* have their labels and an edge between them
C14_Witness ==
    /\ cpc = "done"
    /\ Aliases # {}
    /\ \E a, b \in Representatives :
          /\ a # b
          /\ {a, b} \in DOMAIN grr_edges
          /\ grr_nodes[a].clusters = Metrics

\* ------------------------------------------------------------------------
\* Properties of predict_rgp
\* ------------------------------------------------------------------------
Untouched ==
    /\ ~loaded
    /\ regions = {}
    /\ parameters = <<>>
    /\ pc = "init_matrices"
    /\ matrix = <<>>

\* C15: predict_rgp on a pangenome whose predictedRGP status is "inFile"
\* with force unset raises before it loads data, adds a region, records
\* parameters or changes the status; with force set the stored RGPs are
\* erased before anything is loaded or computed.
C15_RefusedOrErasedFirst ==
    /\ ppc = "AlreadyComputed" => (Untouched /\ status = "inFile" /\ file_rgp)
    /\ (status = "inFile" /\ ~force) =>
          (ppc \in {"check_pangenome_former_rgp", "AlreadyComputed"} /\ Untouched)
    /\ ~Untouched => ~file_rgp

\* the refusal: predict_rgp raised on a pangenome that holds RGPs
C15_Witness ==
    /\ ppc = "AlreadyComputed"
    /\ status = "inFile"
    /\ ~force
    /\ file_rgp

\* ------------------------------------------------------------------------
\* Properties of dereplicate_rgp and of the metrics
\* ------------------------------------------------------------------------
\* C16: dereplication is idempotent: dereplicate_rgp applied to the
\* representatives a first call returned can only return the same
\* representatives, each with an empty set of aliases.  (uniq_rgps is not
\* written again after dereplicate_rgp returned.)
C16_DereplicationIdempotent ==
    cpc = "make_chunks" =>
        dereplicate_rgp_results(Representatives) =
            {[rep \in Representatives |-> {}]}

\* the first call left several representatives and put an alias aside
C16_Witness ==
    /\ Dereplicated
    /\ Cardinality(Representatives) >= 2
    /\ Aliases # {}

\* the pairs of family sets the workers are given
FamilyPairs ==
    UNION {{<<chunks[k][i][1][2], chunks[k][i][2][2]>> : i \in DOMAIN chunks[k]}
              : k \in DOMAIN chunks}

\* C17: for all family sets A, B with a non-empty intersection,
\* compute_grr(A, B, min), compute_grr(A, B, max) and
\* compute_jaccard_index(A, B) lie in [0, 1] and keep their value when A and
\* B are swapped.  (The pairs are those of the chunks, which are not
\* written again once they are built.)
C17_SymmetricInUnitInterval ==
    cpc = "Pool" =>
        \A p \in FamilyPairs :
            (p[1] \cap p[2]) # {} =>
                /\ \A m \in {"min", "max"} :
                      /\ InUnitInterval(compute_grr(p[1], p[2], m))
                      /\ compute_grr(p[1], p[2], m) = compute_grr(p[2], p[1], m)
                /\ InUnitInterval(compute_jaccard_index(p[1], p[2]))
                /\ compute_jaccard_index(p[1], p[2]) =
                      compute_jaccard_index(p[2], p[1])

\* a worker computed the metrics of two sets of different sizes that share
\* a family
C17_Witness ==
    /\ \E p \in FamilyPairs :
          /\ (p[1] \cap p[2]) # {}
          /\ Cardinality(p[1]) # Cardinality(p[2])
    /\ \E m \in ComputedMetrics : m.min_grr # m.max_grr

\* ------------------------------------------------------------------------
\* Properties of the scores
\* ------------------------------------------------------------------------
\* the number of consecutive persistent, non multigenic genes right before
\* gene i
RECURSIVE RunBefore(_)
RunBefore(i) ==
    IF i = 0 \/ ~penalised(genes[i - 1]) THEN 0 ELSE 1 + RunBefore(i - 1)

Delta(i) ==
    IF penalised(genes[i])
    THEN 0 - pow(persistent_penalty, RunBefore(i))
    ELSE variable_gain

\* delta_i + score_{i-1}, on the clamped score of the gene before
RECURSIVE LinearSum(_)
LinearSum(i) ==
    Delta(i) + (IF i = 0 THEN 0
                ELSE IF LinearSum(i - 1) > 0 THEN LinearSum(i - 1) ELSE 0)

\* C18: after init_matrices on a linear contig, for every gene i:
\* delta_i = -(P^k) if the family of gene i is persistent and not
\* multigenic, k being the number of such genes right before i, else
\* delta_i = +G; score_i = max(0, delta_i + score_{i-1}) with score_{-1} = 0;
\* state_i = 1 iff delta_i + score_{i-1} >= 0; the predecessor of node i is
\* node i-1, none for node 0.
C18_FirstPassScores ==
    (~is_circular /\ AfterInit) =>
        /\ DOMAIN matrix = DOMAIN genes
        /\ \A i \in DOMAIN matrix :
              /\ matrix[i].score = (IF LinearSum(i) > 0 THEN LinearSum(i) ELSE 0)
              /\ matrix[i].state = (IF LinearSum(i) >= 0 THEN 1 ELSE 0)
              /\ matrix[i].prev = (IF i = 0 THEN None ELSE i - 1)
              /\ matrix[i].gene = i

\* a linear contig after init_matrices, with a run of two penalised genes,
\* a penalised gene that follows a variable one, and nodes in both states
C18_Witness ==
    /\ ~is_circular
    /\ AfterInit
    /\ persistent_penalty = 3
    /\ \E i \in DOMAIN genes : penalised(genes[i]) /\ RunBefore(i) = 2
    /\ \E i \in DOMAIN genes :
          i >= 1 /\ penalised(genes[i]) /\ RunBefore(i) = 0
    /\ \E i, j \in DOMAIN matrix : matrix[i].state = 0 /\ matrix[j].state = 1

\* the score a step computes for the node it writes, before the clamp
ComputedScore(i) ==
    modif(genes[i], nb_perc, persistent_penalty, variable_gain)
        + (IF pc = "init_matrices"
           THEN (IF i = 0 THEN 0 ELSE matrix[i - 1].score)
           ELSE matrix[prev].score)

ClampedTo0(i) ==
    ComputedScore(i) < 0 => (matrix'[i].score = 0 /\ matrix'[i].state = 0)

ClampsNegative ==
    /\ pc = "init_matrices" => ClampedTo0(Cardinality(DOMAIN matrix))
    /\ (pc = "init_wrap" /\ c' # c) => ClampedTo0(c)
    /\ (pc = "rewrite_while" /\ rw_index' # rw_index) => ClampedTo0(rw_index)

\* C19: in every reachable state of the automaton (during and after
\* init_matrices, the circular pass, every extract_rgp and every
\* rewrite_matrix) the score of every node is >= 0, and whenever a step
\* computes a score < 0 the node it writes stores score 0 and state 0.
C19_ScoresNeverNegative ==
    /\ [](\A i \in DOMAIN matrix : matrix[i].score >= 0)
    /\ [][ClampsNegative]_vars

\* on a linear contig a node that was in state 1 after init_matrices and
\* is in no region was brought to state 0 and score 0 by rewrite_matrix
C19_Witness ==
    /\ ~is_circular
    /\ pc = "mk_regions"
    /\ extracted # <<>>
    /\ \E i \in DOMAIN matrix :
          /\ LinearSum(i) >= 0
          /\ Occurrences(i) = 0
          /\ matrix[i].state = 0
          /\ matrix[i].score = 0

\* the predecessor of node i on the circle
CircularPredecessor(i) == IF i = 0 THEN NbGenes - 1 ELSE i - 1

WrapPropagates ==
    (pc = "init_wrap" /\ c' # c) =>
        LET sum == modif(genes[c], nb_perc, persistent_penalty, variable_gain)
                      + matrix[CircularPredecessor(c)].score
        IN  matrix'[c].score = (IF sum > 0 THEN sum ELSE 0)

\* C20: in the circular pass of init_matrices the propagation of the score
\* goes on along the circle: each node c that is walked again gets the
\* score max(0, delta_c + s), s being the current score of its predecessor
\* on the circle (the score of the last node for c = 0, the score node c-1
\* was just given for c >= 1).
C20_WrapFollowsCircle == [][WrapPropagates]_vars

\* ------------------------------------------------------------------------
\* Properties of the circular pass, of extract_rgp and of rewrite_matrix
\* ------------------------------------------------------------------------
\* the nodes the first pass of init_matrices left in state 0
FirstPassZeros == {i \in DOMAIN genes : LinearSum(i) < 0}

\* C21: in the circular pass of init_matrices the walk from node 0 stops no
\* later than the first node that was in state 0 after the first pass: that
\* node and every node after it keep the state and the score the first pass
\* gave them.
C21_WrapStopsAtFirstZero ==
    (is_circular /\ AfterInit) =>
        \A z \in FirstPassZeros :
            \A i \in DOMAIN matrix :
                i >= z =>
                    /\ matrix[i].state = (IF LinearSum(i) >= 0 THEN 1 ELSE 0)
                    /\ matrix[i].score = (IF LinearSum(i) > 0 THEN LinearSum(i) ELSE 0)

\* rewrite_matrix has returned from the call that followed an extraction
\* started at the last node of the contig
RewrittenAfterLast ==
    /\ pc = "mk_regions"
    /\ extracted # <<>>
    /\ index = NbGenes - 1

\* C22: when the node a region was extracted from is the last node of a
\* circular contig, rewrite_matrix wraps to index 0 and rescores the nodes
\* in state 1 from node 0 on, from a predecessor score of 0: node 0, if it
\* is still in state 1, holds the score of a first node, and no node keeps a
\* score computed from the old score of the extracted node.
C22_RewriteWrapsToStart ==
    (is_circular /\ NbGenes >= 2 /\ RewrittenAfterLast) =>
        /\ rw_index # NbGenes
        /\ matrix[0].state = 1 =>
              matrix[0].score = modif(genes[0], 0, persistent_penalty, variable_gain)

\* one turn of the while loop of extract_rgp: a node in state 1 gives its
\* gene and is the only node written; a node in state 0 ends the walk
ExtractStep ==
    pc = "extract_rgp" =>
        IF matrix[node].state = 1
        THEN /\ new_region' = Append(new_region, matrix[node].gene)
             /\ \A i \in DOMAIN matrix :
                   IF i = node
                   THEN matrix'[i] = [matrix[i] EXCEPT !.state = 0, !.score = 0]
                   ELSE matrix'[i] = matrix[i]
             /\ (matrix[node].prev = None) <=> (pc' = "length_filter")
             /\ (matrix[node].prev # None) => (node' = matrix[node].prev)
        ELSE /\ new_region' = new_region
             /\ matrix' = matrix
             /\ pc' = "length_filter"

\* the region extract_rgp returned
Extracted ==
    /\ \A k \in DOMAIN new_region :
          /\ matrix[new_region[k]].state = 0
          /\ matrix[new_region[k]].score = 0
    /\ new_region # <<>> => new_region[1] = index
    /\ \A k \in 1..(Len(new_region) - 1) :
          /\ new_region[k + 1] = matrix[new_region[k]].prev
          /\ ~is_circular => new_region[k + 1] = new_region[k] - 1

\* C23: extract_rgp started at node n appends, in the order of the walk, the
\* gene of n and of each predecessor in turn while the node is in state 1,
\* stops at the first node in state 0 or at a missing predecessor, sets
\* state 0 and score 0 on the nodes whose gene it appended and writes no
\* other node; on a linear contig the genes of the region are consecutive
\* positions in decreasing order.
C23_ExtractWalk ==
    /\ [][ExtractStep]_vars
    /\ [](pc = "length_filter" => Extracted)

\* a region of two genes or more on a linear contig, whose walk stopped at
\* a node in state 0 and left another node in state 1
C23_Witness ==
    /\ ~is_circular
    /\ pc = "length_filter"
    /\ Len(new_region) >= 2
    /\ new_region[Len(new_region)] > 0
    /\ \E i \in DOMAIN matrix : matrix[i].state = 1

\* mk_regions has just taken the maximum, the matrix is as it was scanned
JustChosen ==
    \/ pc = "extract_rgp" /\ new_region = <<>>
    \/ pc = "done"

\* C24: at every iteration of mk_regions the node chosen for the extraction
\* is the one of highest index among the nodes that hold the maximum score,
\* and the score of the extracted region is that maximum.
C24_LastMaximumChosen ==
    /\ JustChosen =>
          /\ matrix[index].score = val
          /\ \A i \in DOMAIN matrix :
                /\ matrix[i].score <= val
                /\ i > index => matrix[i].score < val
          /\ pc = "extract_rgp" => (node = index /\ val >= min_score)
          /\ pc = "done" => val < min_score
    /\ (pc = "rewrite_matrix" /\ long_enough(new_region, min_length)) =>
          \E r \in contig_regions :
              r.genes = new_region /\ r.genes[1] = index /\ r.score = val

\* two nodes held the maximum and the extraction starts at the later one
C24_Witness ==
    /\ pc = "extract_rgp"
    /\ new_region = <<>>
    /\ val >= 1
    /\ \E i \in DOMAIN matrix : i < index /\ matrix[i].score = val

\* ------------------------------------------------------------------------
\* Properties of the chunks
\* ------------------------------------------------------------------------
RECURSIVE Flattened(_)
Flattened(chs) == IF chs = <<>> THEN <<>> ELSE Head(chs) \o Flattened(Tail(chs))

\* the pairs of names, in the order of the chunks
ChunkedPairs ==
    LET all == Flattened(chunks)
    IN  [i \in DOMAIN all |-> <<all[i][1][1], all[i][2][1]>>]

PairsCount ==
    (Cardinality(Representatives) * (Cardinality(Representatives) - 1)) \div 2

\* C25: make_chunks cuts the stream of the pairs of representatives into
\* consecutive chunks, none empty, each of exactly size pairs but possibly
\* the last one, and every unordered pair of distinct representatives is in
\* exactly one chunk, once; the size cluster_rgp passes is >= 1 and the
\* number of chunks is at most cpu * 10.
C25_ChunksCutThePairs ==
    cpc = "Pool" =>
        LET size == (PairsCount \div (cpu * 10)) + 1
        IN  /\ size >= 1
            /\ \A k \in DOMAIN chunks :
                  /\ chunks[k] # <<>>
                  /\ Len(chunks[k]) <= size
                  /\ k < Len(chunks) => Len(chunks[k]) = size
            /\ ChunkedPairs = combinations(in_dict_order(Representatives))
            /\ Len(ChunkedPairs) = PairsCount
            /\ \A a, b \in Representatives :
                  a # b => Cardinality(PlacesOf(a, b)) = 1
            /\ Len(chunks) <= cpu * 10

\* chunks of two pairs, and a last chunk that is not full
C25_Witness ==
    /\ cpc = "Pool"
    /\ Len(chunks) >= 3
    /\ Len(chunks[1]) = 2
    /\ Len(chunks[Len(chunks)]) = 1
    /\ Aliases # {}

\* ------------------------------------------------------------------------
\* Regions over the origin of a circular contig
\* ------------------------------------------------------------------------
\* the walk of extract_rgp went from node 0 to the last node
Crosses(region_genes) ==
    \E k \in 1..(Len(region_genes) - 1) :
        region_genes[k] = 0 /\ region_genes[k + 1] = NbGenes - 1

\* C26: on a circular contig whose gene coordinates increase with the
\* position, a region whose extraction walk went from node 0 to the last
\* node is never in the result of mk_regions when min_length >= 0: the stop
\* of its first gene minus the start of its last gene is negative, the length
\* filter drops it, and its genes stay consumed.
C26_CrossingRegionDropped ==
    min_length >= 0 =>
        \A k \in DOMAIN extracted :
            (Crosses(extracted[k]) /\ (k < Len(extracted) \/ pc # "length_filter")) =>
                LET r == extracted[k]
                IN  /\ is_circular
                    /\ stop(r[1]) - start(r[Len(r)]) < 0
                    /\ \A reg \in contig_regions : reg.genes # r
                    /\ \A i \in DOMAIN r : matrix[r[i]].state = 0

\* the prediction ended, a region went over the origin, and min_length is 0
C26_Witness ==
    /\ pc = "done"
    /\ min_length = 0
    /\ \E k \in DOMAIN extracted : Crosses(extracted[k])

\* ------------------------------------------------------------------------
\* Scores under extraction and rescoring
\* ------------------------------------------------------------------------
AfterInitMatrices ==
    pc \in {"mk_regions", "extract_rgp", "length_filter", "rewrite_matrix",
            "rewrite_while"}

ScoresNotRaised ==
    \A i \in DOMAIN matrix : matrix'[i].score <= matrix[i].score

InRewrite == pc \in {"rewrite_matrix", "rewrite_while"}

\* the node under rescoring comes right after the node rescored before it,
\* or right after the extracted node
FollowsPrevious ==
    \/ rw_index = prev + 1
    \/ is_circular /\ rw_index = 0 /\ prev = NbGenes - 1

\* C28: rewrite_matrix writes only nodes that are in state 1 when it comes
\* to them, one after the other from the node that follows the extracted
\* one; it never turns a node in state 0 to state 1, and the state and the
\* score of every other node stay as they are (on a linear contig, all the
\* nodes up to the extracted one; everywhere, the nodes from the first node
\* in state 0 on).
C28_RewriteFrame ==
    [][InRewrite =>
          \A i \in DOMAIN matrix :
              /\ matrix'[i].gene = matrix[i].gene
              /\ matrix'[i].prev = matrix[i].prev
              /\ matrix[i].state = 0 => matrix'[i] = matrix[i]
              /\ matrix'[i] # matrix[i] =>
                    /\ pc = "rewrite_while"
                    /\ i = rw_index
                    /\ matrix[i].state = 1
                    /\ FollowsPrevious
                    /\ ~is_circular => i > index
              /\ (pc = "rewrite_while" /\ matrix[rw_index].state = 0) =>
                    (matrix' = matrix /\ pc' = "mk_regions")]_vars

\* rewrite_matrix rescored the node after the extracted one to state 0 and
\* stopped at a node that was in state 0, before the end of the contig
C28_Witness ==
    /\ pc = "mk_regions"
    /\ extracted # <<>>
    /\ rw_index >= index + 2
    /\ rw_index < NbGenes
    /\ matrix[rw_index].state = 0
    /\ \A k \in DOMAIN extracted : \A j \in DOMAIN extracted[k] :
          extracted[k][j] # rw_index

\* ------------------------------------------------------------------------
\* State and score of a node
\* ------------------------------------------------------------------------
\* C29: in every state of the automaton (in and after init_matrices with its
\* circular pass, after each turn of extract_rgp and of rewrite_matrix) a
\* node in state 0 has the score 0, so a node with a score >= 1 is in state 1.
C29_State0HasScore0 ==
    \A i \in DOMAIN matrix :
        /\ matrix[i].state \in {0, 1}
        /\ matrix[i].state = 0 => matrix[i].score = 0
        /\ matrix[i].score >= 1 => matrix[i].state = 1

\* the circular pass rescored a node, a region was extracted, a node that
\* is in no region is in state 0 and another node still has a score
C29_Witness ==
    /\ pc = "mk_regions"
    /\ is_circular
    /\ c >= 1
    /\ extracted # <<>>
    /\ \E i \in DOMAIN matrix :
          /\ matrix[i].state = 0
          /\ \A k \in DOMAIN extracted : \A j \in DOMAIN extracted[k] :
                extracted[k][j] # i
    /\ \E i \in DOMAIN matrix : matrix[i].score >= 1

\* ------------------------------------------------------------------------
\* dereplicate_rgp as a partition
\* ------------------------------------------------------------------------
GroupsOf(r) == {rep \in Representatives : r \in uniq_rgps[rep]}

\* C30: dereplicate_rgp partitions its input: every region is either a key
\* of the returned dict or in exactly one set of aliases, never both, a
\* representative and its aliases have the same tuple of families, and
\* every region of the pangenome is a node of the final graph.
C30_DereplicationPartitions ==
    /\ cpc = "make_chunks" =>
          /\ \A r \in DOMAIN rgps :
                IF r \in Representatives
                THEN GroupsOf(r) = {}
                ELSE Cardinality(GroupsOf(r)) = 1
          /\ Representatives \subseteq DOMAIN rgps
          /\ \A rep \in Representatives :
                \A a \in uniq_rgps[rep] : a \in DOMAIN rgps /\ rgps[a] = rgps[rep]
    /\ cpc \in {"write", "done"} =>
          /\ DOMAIN grr_nodes = DOMAIN rgps
          /\ DOMAIN grr_nodes = Representatives \cup Aliases

\* the graph is complete, with two representatives and an alias among its
\* nodes
C30_Witness ==
    /\ cpc = "write"
    /\ Cardinality(Representatives) >= 2
    /\ \E rep \in Representatives : uniq_rgps[rep] # {}
    /\ Cardinality(DOMAIN grr_nodes) = Cardinality(DOMAIN rgps)
====
